---- MODULE Spec2Model ----
(***************************************************************************)
(* A model of src/main.py: the maze, the actors' wall-constrained motion,  *)
(* the per-frame update of Game.run and the events the loop handles.       *)
(*                                                                         *)
(* Positions are the doubles the code computes.  A coordinate v is kept as *)
(* the pair <<k, e>> with 5*v = k + e * 2^-46 exactly: k counts fifths of  *)
(* a pixel (GHOST_SPEED = 2.6 = 13/5) and e is the rounding error the      *)
(* double additions have accumulated.  For the player e is always 0.       *)
(***************************************************************************)
EXTENDS Integers, Sequences, FiniteSets, TLC

----------------------------------------------------------------------------
(* Config & Constants                                                      *)

\* 1 = Wall, 0 = Empty, 2 = Pellet, 3 = Power Pellet
maze_layout ==
  << <<1, 1, 1, 1, 1, 1, 1>>,
     <<1, 2, 2, 3, 2, 2, 1>>,
     <<1, 2, 1, 1, 1, 2, 1>>,
     <<1, 2, 2, 2, 2, 2, 1>>,
     <<1, 3, 1, 1, 1, 3, 1>>,
     <<1, 2, 2, 2, 2, 2, 1>>,
     <<1, 1, 1, 1, 1, 1, 1>> >>

\* fifths of a pixel per pixel
SCALE == 5

TILE_SIZE == 64

MAZE_ROWS == Len(maze_layout)

MAZE_COLS == Len(maze_layout[1])

FPS == 60

\* 3.0 pixels per frame, in fifths
PACMAN_SPEED == 15

\* 2.6 pixels per frame, in fifths
GHOST_SPEED == 13

POWER_DURATION_MS == 6000

PELLET_SCORE == 10

POWER_PELLET_SCORE == 50

GHOST_EAT_SCORE == 200

UI_HEIGHT == 64

\* the delay of pygame.time.set_timer(pygame.USEREVENT + 1, 1500, loops=1)
RESPAWN_MS == 1500

\* dist < TILE_SIZE * 0.6, the factor in fifths
COLLIDE_FIFTHS == 3

\* self.lives = 3
START_LIVES == 3

UP == <<0, -1>>

DOWN == <<0, 1>>

LEFT == <<-1, 0>>

RIGHT == <<1, 0>>

STOP == <<0, 0>>

\* the list [UP, DOWN, LEFT, RIGHT] of Ghost.__init__, available_dirs and reset_to_spawn
DIRS == <<UP, DOWN, LEFT, RIGHT>>

DirSet == {DIRS[i] : i \in 1..Len(DIRS)}

PACMAN_CELL == <<3, 3>>

GHOST_CELLS == << <<3, 1>>, <<3, 5>> >>

Ghosts == 1..Len(GHOST_CELLS)

----------------------------------------------------------------------------
(* Double arithmetic on coordinates <<k, e>>, 5*v = k + e * 2^-46          *)

\* the double of an integer number of pixels
Px(n) == <<n * SCALE, 0>>

\* 5*v < b for the unrounded v with 5*v = kk + num * 2^-51 (|num * 2^-51| < 1)
FBelow(kk, num, b) == kk < b \/ (kk = b /\ num < 0)

\* Round the real v, 5*v = kk + num * 2^-51, to the nearest double (ties to
\* even).  The doubles in [64,128) are the multiples of 2^-46, in [128,256) of
\* 2^-45, in [256,512) of 2^-44, that is of m = 32, 64, 128 units of 2^-51;
\* v in units of 2^-51 is congruent to 205 * num modulo 256 (5 * 205 = 1025).
FRound(kk, num) ==
  LET m   == IF FBelow(kk, num, 128 * SCALE) THEN 32
             ELSE IF FBelow(kk, num, 256 * SCALE) THEN 64 ELSE 128
      r   == (205 * num) % (2 * m)
      rem == r % m
      dn  == 2 * rem < m \/ (2 * rem = m /\ r < m)
      n2  == IF dn THEN num - 5 * rem ELSE num + 5 * (m - rem)
  IN <<kk, n2 \div 32>>

\* x + d for d in {-1, 0, 1} (self.pos[0] += self.dir[0])
FAddOne(c, d) == IF d = 0 THEN c ELSE FRound(c[1] + SCALE * d, 32 * c[2])

\* x + d * frac for the double frac = speed - int(speed): for speed = 2.6 the
\* subtraction 2.6 - 2 is exact and gives 5 * frac = 3 + 2^-51
FAddFrac(c, d, fr) == IF d = 0 THEN c ELSE FRound(c[1] + fr * d, 32 * c[2] + d)

\* int(v // TILE_SIZE)
FTile(c) ==
  LET q == c[1] \div (TILE_SIZE * SCALE)
  IN IF c[1] % (TILE_SIZE * SCALE) = 0 /\ c[2] < 0 THEN q - 1 ELSE q

\* abs((v - TILE_SIZE / 2) % TILE_SIZE) < 0.5 ; the subtraction and % are exact
FNearCentre(c) ==
  LET o == (c[1] - (TILE_SIZE * SCALE) \div 2) % (TILE_SIZE * SCALE)
  IN IF o = 0 THEN c[2] >= 0 ELSE 2 * o < SCALE

\* v - n for an integer n of pixels (exact for the values the code subtracts)
FSubPx(c, n) == <<c[1] - n * SCALE, c[2]>>

----------------------------------------------------------------------------
(* Helper Functions                                                        *)

add_tuple(a, b) == <<a[1] + b[1], a[2] + b[2]>>

opposite(dir_) == <<-dir_[1], -dir_[2]>>

grid_to_pixel(cell) ==
  << Px(cell[1] * TILE_SIZE + TILE_SIZE \div 2),
     Px(cell[2] * TILE_SIZE + TILE_SIZE \div 2 + UI_HEIGHT) >>

pixel_to_grid(pos) == <<FTile(pos[1]), FTile(FSubPx(pos[2], UI_HEIGHT))>>

is_centered(pos) == FNearCentre(pos[1]) /\ FNearCentre(FSubPx(pos[2], UI_HEIGHT))

----------------------------------------------------------------------------
(* Maze                                                                    *)

in_bounds(cell) ==
  /\ 0 <= cell[2] /\ cell[2] < MAZE_ROWS
  /\ 0 <= cell[1] /\ cell[1] < MAZE_COLS

\* eat_at writes 0 over a 2 or a 3 only, so the walls of self.layout are those
\* of maze_layout
is_wall(cell) == IF ~in_bounds(cell) THEN TRUE ELSE maze_layout[cell[2] + 1][cell[1] + 1] = 1

\* Maze._scan_pellets: the cells marked 2, and those marked 3
ScanPellets(kind) ==
  {cell \in (0..(MAZE_COLS - 1)) \X (0..(MAZE_ROWS - 1)) :
     maze_layout[cell[2] + 1][cell[1] + 1] = kind}

\* Maze.__init__ leaving the power pellets out
NewMaze_pellets_only == [pellets |-> ScanPellets(2), power_pellets |-> {}]

\* Maze.__init__
NewMaze == [pellets |-> ScanPellets(2), power_pellets |-> ScanPellets(3)]

\* Maze.eat_at: the maze after eating and the score gained
eat_at(maze, cell) ==
  IF cell \in maze.pellets
    THEN [maze |-> [maze EXCEPT !.pellets = @ \ {cell}], gained |-> PELLET_SCORE]
  ELSE IF cell \in maze.power_pellets
    THEN [maze |-> [maze EXCEPT !.power_pellets = @ \ {cell}], gained |-> POWER_PELLET_SCORE]
  ELSE [maze |-> maze, gained |-> 0]

remaining_dots(maze) == Cardinality(maze.pellets) + Cardinality(maze.power_pellets)

----------------------------------------------------------------------------
(* Actors                                                                  *)

\* Actor.__init__ as called by Pacman.__init__
NewPacman == [pos |-> grid_to_pixel(PACMAN_CELL), dir |-> STOP, pending_dir |-> STOP]

\* Ghost.__init__, d the result of random.choice([UP, DOWN, LEFT, RIGHT])
NewGhost(cell, d) ==
  [pos |-> grid_to_pixel(cell), dir |-> d, frightened |-> FALSE,
   respawn_cell |-> cell, alive |-> TRUE]

current_cell(self) == pixel_to_grid(self.pos)

\* can_move_dir without the check of the next pixel's cell
can_move_dir_centre_only(self, dir_) ==
  ~(is_centered(self.pos) /\ is_wall(add_tuple(current_cell(self), dir_)))

can_move_dir(self, dir_) ==
  LET nx         == FAddOne(self.pos[1], dir_[1])
      ny         == FAddOne(self.pos[2], dir_[2])
      next_cell  == pixel_to_grid(<<nx, ny>>)
      ahead_cell == add_tuple(current_cell(self), dir_)
  IN IF is_centered(self.pos) /\ is_wall(ahead_cell)
       THEN FALSE
       ELSE ~is_wall(next_cell)

\* one pass of the loop of Actor.move
MoveOne(self) ==
  [self EXCEPT !.pos = <<FAddOne(@[1], self.dir[1]), FAddOne(@[2], self.dir[2])>>]

\* for _ in range(n): step while can_move_dir, else break
RECURSIVE MoveSteps(_, _)
MoveSteps(self, n) ==
  IF n = 0 \/ ~can_move_dir(self, self.dir)
    THEN self
    ELSE MoveSteps(MoveOne(self), n - 1)

\* the fractional step of Actor.move
MoveFrac(self, fr) ==
  IF fr > 0 /\ can_move_dir(self, self.dir)
    THEN [self EXCEPT !.pos = <<FAddFrac(@[1], self.dir[1], fr), FAddFrac(@[2], self.dir[2], fr)>>]
    ELSE self

\* Actor.move for an actor of the given speed (in fifths)
move(self, speed) ==
  IF self.dir = STOP
    THEN self
    ELSE MoveFrac(MoveSteps(self, speed \div SCALE), speed % SCALE)

\* Pacman.update committing the buffered direction wherever the player is
PacmanUpdate_anywhere(self) ==
  LET ahead_cell == add_tuple(current_cell(self), self.pending_dir)
      turned == IF /\ self.pending_dir # STOP
                   /\ ~is_wall(ahead_cell)
                  THEN [self EXCEPT !.dir = self.pending_dir]
                  ELSE self
  IN move(turned, PACMAN_SPEED)

\* Pacman.update
PacmanUpdate(self) ==
  LET ahead_cell == add_tuple(current_cell(self), self.pending_dir)
      turned == IF /\ self.pending_dir # STOP
                   /\ is_centered(self.pos)
                   /\ ~is_wall(ahead_cell)
                  THEN [self EXCEPT !.dir = self.pending_dir]
                  ELSE self
  IN move(turned, PACMAN_SPEED)

\* Pacman.handle_event for a KEYDOWN of the arrow key of direction d
handle_event(self, d) == [self EXCEPT !.pending_dir = d]

\* Ghost.available_dirs
available_dirs(self) ==
  LET valid == SelectSeq(DIRS, LAMBDA d :
                 /\ ~is_wall(add_tuple(current_cell(self), d))
                 /\ ~(d = opposite(self.dir) /\ ~is_centered(self.pos)))
  IN IF valid = <<>> THEN <<opposite(self.dir)>> ELSE valid

\* the options of Ghost.update without the removal of the reverse
GhostOptions_with_reverse(self) == available_dirs(self)

\* the options Ghost.update draws from when centered
GhostOptions(self) ==
  LET options == available_dirs(self)
  IN IF Len(options) > 1 /\ \E i \in 1..Len(options) : options[i] = opposite(self.dir)
       THEN SelectSeq(options, LAMBDA d : d # opposite(self.dir))
       ELSE options

\* Ghost.update: the states random.choice can lead to
GhostUpdate(self) ==
  IF is_centered(self.pos)
    THEN {move([self EXCEPT !.dir = GhostOptions(self)[i]], GHOST_SPEED) :
            i \in 1..Len(GhostOptions(self))}
    ELSE {move(self, GHOST_SPEED)}

\* Ghost.reset_to_spawn, d the result of random.choice
reset_to_spawn(self, d) ==
  [self EXCEPT !.pos = grid_to_pixel(self.respawn_cell), !.dir = d,
               !.alive = TRUE, !.frightened = FALSE]

----------------------------------------------------------------------------
(* Game                                                                    *)

\* the frames a behaviour is followed for
MaxTicks == 210

\* the frame durations explored: clock.tick(FPS) waits 1000 // FPS ms, and a
\* slow machine takes longer
SLOW_FRAME_MS == 200

FrameDurations == {1000 \div FPS, SLOW_FRAME_MS}

VARIABLES
  game,          \* the fields of the Game object (self)
  now,           \* pygame.time.get_ticks() during the current frame
  timer,         \* when the one-shot USEREVENT + 1 timer posts its event, 0 if not armed
  frame_ms,      \* the duration of a frame
  at_eat,        \* history: self as eat_logic found it in the latest update
  at_collision,  \* history: self as collision_logic found it in the latest update
  script         \* the key presses a scripted player still has to make

vars == <<game, now, timer, frame_ms, at_eat, at_collision, script>>

\* Game.__init__, rd[i] the random direction of ghost i
NewGame(rd) ==
  [maze |-> NewMaze,
   pacman |-> NewPacman,
   ghosts |-> [i \in Ghosts |-> NewGhost(GHOST_CELLS[i], rd[i])],
   score |-> 0,
   lives |-> START_LIVES,
   power_expires_at |-> 0,
   win |-> FALSE,
   game_over |-> FALSE]

NewGames == {NewGame(rd) : rd \in [Ghosts -> DirSet]}

\* set_power_mode frightening the first ghost only
set_power_mode_first_only(self, t) ==
  [self EXCEPT !.power_expires_at = t + POWER_DURATION_MS,
               !.ghosts[1].frightened = self.ghosts[1].alive \/ @]

\* Game.set_power_mode
set_power_mode(self, t) ==
  [self EXCEPT !.power_expires_at = t + POWER_DURATION_MS,
               !.ghosts = [i \in Ghosts |->
                  IF self.ghosts[i].alive
                    THEN [self.ghosts[i] EXCEPT !.frightened = TRUE]
                    ELSE self.ghosts[i]]]

\* update_power_mode ending the window at the expiry time itself
update_power_mode_at_expiry(self, t) ==
  IF self.power_expires_at # 0 /\ t >= self.power_expires_at
    THEN [self EXCEPT !.power_expires_at = 0,
                      !.ghosts = [i \in Ghosts |-> [self.ghosts[i] EXCEPT !.frightened = FALSE]]]
    ELSE self

\* update_power_mode clearing the expiry time and leaving the ghosts as they are
update_power_mode_expiry_only(self, t) ==
  IF self.power_expires_at # 0 /\ t > self.power_expires_at
    THEN [self EXCEPT !.power_expires_at = 0]
    ELSE self

\* Game.update_power_mode
update_power_mode(self, t) ==
  IF self.power_expires_at # 0 /\ t > self.power_expires_at
    THEN [self EXCEPT !.power_expires_at = 0,
                      !.ghosts = [i \in Ghosts |-> [self.ghosts[i] EXCEPT !.frightened = FALSE]]]
    ELSE self

\* eat_logic eating only where the player is centered
eat_logic_centered(self, t) ==
  LET ate  == eat_at(self.maze, current_cell(self.pacman))
      fed  == [self EXCEPT !.maze = ate.maze, !.score = @ + ate.gained]
  IN IF ate.gained # 0 /\ is_centered(self.pacman.pos)
       THEN IF ate.gained = POWER_PELLET_SCORE THEN set_power_mode(fed, t) ELSE fed
       ELSE self

\* Game.eat_logic
eat_logic(self, t) ==
  LET ate  == eat_at(self.maze, current_cell(self.pacman))
      fed  == [self EXCEPT !.maze = ate.maze, !.score = @ + ate.gained]
  IN IF ate.gained # 0
       THEN IF ate.gained = POWER_PELLET_SCORE THEN set_power_mode(fed, t) ELSE fed
       ELSE self

\* math.hypot(px - gx, py - gy) < TILE_SIZE * 0.6.  The double TILE_SIZE * 0.6
\* is (192 - 2^-47) / 5; the distance in fifths is 192 exactly only along one
\* axis, and there the rounding error of the ghost's coordinate decides.
within_reach(p, g) ==
  LET dx  == p[1][1] - g[1][1]
      dy  == p[2][1] - g[2][1]
      lim == TILE_SIZE * COLLIDE_FIFTHS
      de  == IF dx # 0 THEN (IF dx > 0 THEN 1 ELSE -1) * (p[1][2] - g[1][2])
                       ELSE (IF dy > 0 THEN 1 ELSE -1) * (p[2][2] - g[2][2])
  IN IF dx * dx + dy * dy = lim * lim
       THEN de <= -1
       ELSE dx * dx + dy * dy < lim * lim

\* reset_round rebuilding the maze as well
reset_round_fresh_maze(self) ==
  {[self EXCEPT !.pacman = NewPacman,
                !.maze = NewMaze,
                !.ghosts = [i \in Ghosts |-> reset_to_spawn(self.ghosts[i], rd[i])],
                !.power_expires_at = 0] : rd \in [Ghosts -> DirSet]}

\* Game.reset_round: the states the random directions can lead to
reset_round(self) ==
  {[self EXCEPT !.pacman = NewPacman,
                !.ghosts = [i \in Ghosts |-> reset_to_spawn(self.ghosts[i], rd[i])],
                !.power_expires_at = 0] : rd \in [Ghosts -> DirSet]}

\* the loop of Game.collision_logic from ghost i on; tm is the timer, t the time
RECURSIVE CollideFrom(_, _, _, _)
CollideFrom(self, tm, t, i) ==
  IF i > Len(GHOST_CELLS)
    THEN {[game |-> self, timer |-> tm]}
  ELSE IF ~self.ghosts[i].alive
    THEN CollideFrom(self, tm, t, i + 1)
  ELSE IF within_reach(self.pacman.pos, self.ghosts[i].pos)
    THEN IF self.ghosts[i].frightened
           THEN CollideFrom([self EXCEPT !.ghosts[i].alive = FALSE,
                                         !.score = @ + GHOST_EAT_SCORE,
                                         !.ghosts[i].frightened = FALSE],
                            t + RESPAWN_MS, t, i + 1)
           ELSE LET lost == [self EXCEPT !.lives = @ - 1,
                                         !.game_over = IF self.lives - 1 <= 0 THEN TRUE ELSE @]
                IN {[game |-> r, timer |-> tm] : r \in reset_round(lost)}
  ELSE CollideFrom(self, tm, t, i + 1)

\* collision_logic taking a life for any ghost in reach, frightened or not
collision_logic_unshielded(self, tm, t) ==
  IF \E i \in Ghosts : /\ self.ghosts[i].alive
                        /\ within_reach(self.pacman.pos, self.ghosts[i].pos)
    THEN LET lost == [self EXCEPT !.lives = @ - 1,
                                  !.game_over = IF self.lives - 1 <= 0 THEN TRUE ELSE @]
         IN {[game |-> r, timer |-> tm] : r \in reset_round(lost)}
    ELSE {[game |-> self, timer |-> tm]}

\* collision_logic without the test of g.alive: a ghost that is not frightened
\* costs a life whether it is alive or not
collision_logic_dead_too(self, tm, t) ==
  IF \E i \in Ghosts : /\ ~self.ghosts[i].frightened
                        /\ within_reach(self.pacman.pos, self.ghosts[i].pos)
    THEN LET lost == [self EXCEPT !.lives = @ - 1,
                                  !.game_over = IF self.lives - 1 <= 0 THEN TRUE ELSE @]
         IN {[game |-> r, timer |-> tm] : r \in reset_round(lost)}
    ELSE CollideFrom(self, tm, t, 1)

\* Game.collision_logic: the outcomes, each with the timer it leaves armed
collision_logic(self, tm, t) == CollideFrom(self, tm, t, 1)

\* check_win raising the win flag alone
check_win_flag_only(self) ==
  IF remaining_dots(self.maze) = 0
    THEN [self EXCEPT !.win = TRUE]
    ELSE self

\* Game.check_win
check_win(self) ==
  IF remaining_dots(self.maze) = 0
    THEN [self EXCEPT !.win = TRUE, !.game_over = TRUE]
    ELSE self

\* self.pacman.update(); for g in self.ghosts: g.update()
MoveActors(self) ==
  {[self EXCEPT !.pacman = PacmanUpdate(@), !.ghosts = <<g1, g2>>] :
     g1 \in GhostUpdate(self.ghosts[1]), g2 \in GhostUpdate(self.ghosts[2])}

\* the update block of Game.run once the actors have moved, with the timer tm
\* at time t: update_power_mode, eat_logic, collision_logic, check_win.  Each
\* outcome comes with the state eat_logic found and the state collision_logic
\* found.
AfterMoves_collide_first(m, tm, t) ==
  LET a == update_power_mode(m, t)
  IN {[game |-> check_win(eat_logic(hit.game, t)), timer |-> hit.timer,
       at_eat |-> hit.game, at_collision |-> a] :
        hit \in collision_logic(a, tm, t)}

AfterMoves(m, tm, t) ==
  LET a == update_power_mode(m, t)
      b == eat_logic(a, t)
  IN {[game |-> check_win(hit.game), timer |-> hit.timer,
       at_eat |-> a, at_collision |-> b] :
        hit \in collision_logic(b, tm, t)}

\* the update block of Game.run
Update(self, tm, t) == UNION {AfterMoves(m, tm, t) : m \in MoveActors(self)}

Init ==
  /\ game \in NewGames
  /\ now = 0
  /\ timer = 0
  /\ frame_ms \in FrameDurations
  /\ at_eat = game
  /\ at_collision = game
  /\ script = <<>>

\* the timer's event is in the queue
TimerDue == timer # 0 /\ now >= timer

\* one pass of the loop of Game.run after its events, in the first n frames:
\* the update block when the game is not over, then clock.tick(FPS)
Frame(n) ==
  /\ ~TimerDue
  /\ now < n * frame_ms
  /\ IF game.game_over
       THEN UNCHANGED <<game, timer, at_eat, at_collision>>
       ELSE \E u \in Update(game, timer, now) :
              /\ game' = u.game
              /\ timer' = u.timer
              /\ at_eat' = u.at_eat
              /\ at_collision' = u.at_collision
  /\ now' = now + frame_ms
  /\ UNCHANGED <<frame_ms, script>>

Tick == Frame(MaxTicks)

\* an arrow key passed to Pacman.handle_event whether the game is over or not
arrow_key_when_over(self, d) == [self EXCEPT !.pacman = handle_event(@, d)]

\* if not self.game_over: self.pacman.handle_event(event), for the KEYDOWN
\* event of the arrow key of direction d
arrow_key(self, d) ==
  IF self.game_over
    THEN self
    ELSE [self EXCEPT !.pacman = handle_event(@, d)]

\* a KEYDOWN event of an arrow key in a game that is not over
KeyDown(d) ==
  /\ ~game.game_over
  /\ game' = arrow_key(game, d)
  /\ UNCHANGED <<now, timer, frame_ms, at_eat, at_collision, script>>

\* a KEYDOWN event of K_r while the game is over: self.__init__()
Restart ==
  /\ game.game_over
  /\ game' \in NewGames
  /\ UNCHANGED <<now, timer, frame_ms, at_eat, at_collision, script>>

\* the handler of USEREVENT + 1 calling reset_to_spawn on every ghost
respawn_every_ghost(self, rd) ==
  [self EXCEPT !.ghosts = [i \in Ghosts |-> reset_to_spawn(self.ghosts[i], rd[i])]]

\* the handler of USEREVENT + 1: for g in self.ghosts: if not g.alive:
\* g.reset_to_spawn(), rd[i] the random direction of ghost i
respawn_eaten(self, rd) ==
  [self EXCEPT !.ghosts = [i \in Ghosts |->
     IF ~self.ghosts[i].alive
       THEN reset_to_spawn(self.ghosts[i], rd[i])
       ELSE self.ghosts[i]]]

\* the USEREVENT + 1 event: respawn the ghosts that were eaten
TimerFire ==
  /\ TimerDue
  /\ \E rd \in [Ghosts -> DirSet] : game' = respawn_eaten(game, rd)
  /\ timer' = 0
  /\ UNCHANGED <<now, frame_ms, at_eat, at_collision, script>>

\* the loop of Game.run: the events of a pass, each handled on its own, and
\* the rest of the pass
Next ==
  \/ Tick
  \/ \E d \in DirSet : KeyDown(d)
  \/ Restart
  \/ TimerFire

Spec == Init /\ [][Next]_vars

----------------------------------------------------------------------------
(* One actor at a time: every state an actor's own methods can take it to, *)
(* for any key presses and any random choices.  An actor's motion reads    *)
(* only its own fields and the walls.                                      *)

\* ghost i is as Ghost.__init__ built it, its random direction being UP
GhostAsBuilt(i) == game.ghosts[i] = NewGhost(GHOST_CELLS[i], UP)

\* Pacman.update alone
PacmanAlone ==
  /\ \A i \in Ghosts : GhostAsBuilt(i)
  /\ game' = [game EXCEPT !.pacman = PacmanUpdate(@)]
  /\ UNCHANGED <<now, timer, frame_ms, at_eat, at_collision, script>>

\* Pacman.handle_event in any frame
KeyAlone(d) ==
  /\ \A i \in Ghosts : GhostAsBuilt(i)
  /\ KeyDown(d)

\* self.pacman = Pacman(self.maze, (3, 3)) of reset_round
PacmanAgain ==
  /\ \A i \in Ghosts : GhostAsBuilt(i)
  /\ game.pacman # NewPacman
  /\ game' = [game EXCEPT !.pacman = NewPacman]
  /\ UNCHANGED <<now, timer, frame_ms, at_eat, at_collision, script>>

\* Ghost.update of ghost i alone
GhostAlone(i) ==
  /\ game.pacman = NewPacman
  /\ \A j \in Ghosts \ {i} : GhostAsBuilt(j)
  /\ \E g \in GhostUpdate(game.ghosts[i]) : game' = [game EXCEPT !.ghosts[i] = g]
  /\ UNCHANGED <<now, timer, frame_ms, at_eat, at_collision, script>>

\* Ghost.reset_to_spawn of ghost i, at any moment
GhostAgain(i) ==
  /\ game.pacman = NewPacman
  /\ \A j \in Ghosts \ {i} : GhostAsBuilt(j)
  /\ \E d \in DirSet : game' = [game EXCEPT !.ghosts[i] = reset_to_spawn(@, d)]
  /\ UNCHANGED <<now, timer, frame_ms, at_eat, at_collision, script>>

NextActor ==
  \/ PacmanAlone
  \/ \E d \in DirSet : KeyAlone(d)
  \/ PacmanAgain
  \/ \E i \in Ghosts : GhostAlone(i)
  \/ \E i \in Ghosts : GhostAgain(i)

\* one of the games Game.__init__ builds, at the nominal frame rate
InitActor ==
  /\ Init
  /\ \A i \in Ghosts : GhostAsBuilt(i)
  /\ frame_ms = 1000 \div FPS

SpecActor == InitActor /\ [][NextActor]_vars

----------------------------------------------------------------------------
(* The first frames of a game at the nominal frame rate, for any player:   *)
(* any key before any frame, any number of frames without a key.  No       *)
(* respawn falls due in them (they last less than the respawn delay) and   *)
(* no game ends in them, so that no timer event and no restart is handled. *)

PatientTicks == 40

InitPatient == Init /\ frame_ms = 1000 \div FPS

NextPatient ==
  \/ Frame(PatientTicks)
  \/ \E d \in DirSet : KeyDown(d)

SpecPatient == InitPatient /\ [][NextPatient]_vars

----------------------------------------------------------------------------
(* A player following a script: each arrow key is pressed in the frame the *)
(* script gives, centered or not; K_r is pressed in any frame.             *)

ScriptTicks == 445

\* <<frame, key>> in the order pressed.  The first script goes round the whole
\* maze, each key pressed in the frame after the wall stopped the player; the
\* second presses LEFT early, going down the right-hand column.
PlayerScripts ==
  { << <<0, RIGHT>>, <<43, LEFT>>, <<129, UP>>, <<172, RIGHT>>,
       <<258, DOWN>>, <<344, LEFT>>, <<430, UP>> >>,
    << <<0, RIGHT>>, <<43, UP>>, <<86, DOWN>>, <<87, LEFT>> >> }

InitScript ==
  /\ game \in NewGames
  /\ now = 0
  /\ timer = 0
  /\ frame_ms \in FrameDurations
  /\ at_eat = game
  /\ at_collision = game
  /\ script \in PlayerScripts

\* the next key of the script is pressed in this frame
KeyNow == script # <<>> /\ now = Head(script)[1] * frame_ms

\* the KEYDOWN event of the script's next key: passed to Pacman.handle_event
\* when the game is not over
ScriptKey ==
  /\ KeyNow
  /\ game' = arrow_key(game, Head(script)[2])
  /\ script' = Tail(script)
  /\ UNCHANGED <<now, timer, frame_ms, at_eat, at_collision>>

NextScript ==
  \/ ScriptKey
  \/ Frame(ScriptTicks) /\ ~KeyNow
  \/ Restart
  \/ TimerFire

SpecScript == InitScript /\ [][NextScript]_vars

----------------------------------------------------------------------------
(* The games of MaxTicks frames of a player following one of a larger set  *)
(* of scripts.                                                             *)

\* the scripts of three keys, pressed at the start and each time a wall has
\* stopped a player who turned at once (a cell is 64 px, the player goes 3 px
\* a frame and the walls are 128 px from the spawn cell); then a player who
\* loses three lives in column 5 and presses a key after that, one who goes
\* right and waits, one who waits at the wall before going up, and one who
\* never presses a key
PlayScripts ==
  { << <<0, a>>, <<43, b>>, <<86, c>> >> :
       a \in {LEFT, RIGHT}, b \in DirSet, c \in DirSet }
  \cup
  { << <<0, RIGHT>>, <<43, UP>>, <<63, RIGHT>>, <<106, UP>>,
       <<126, RIGHT>>, <<169, UP>>, <<190, LEFT>> >>,
    << <<0, RIGHT>> >>,
    << <<0, RIGHT>>, <<61, UP>> >>,
    << >> }

InitPlay ==
  /\ game \in NewGames
  /\ now = 0
  /\ timer = 0
  /\ frame_ms \in FrameDurations
  /\ at_eat = game
  /\ at_collision = game
  /\ script \in PlayScripts

NextPlay ==
  \/ ScriptKey
  \/ Tick /\ ~KeyNow
  \/ Restart
  \/ TimerFire

SpecPlay == InitPlay /\ [][NextPlay]_vars

----------------------------------------------------------------------------
(* Claims                                                                  *)

\* a step that is a frame in which the update block ran
Updated == now' # now /\ ~game.game_over

\* the alive ghosts within collision distance of the player in state self
InReach(self) ==
  {i \in Ghosts : /\ self.ghosts[i].alive
                  /\ within_reach(self.pacman.pos, self.ghosts[i].pos)}

\* those of them that are not frightened
Threats(self) == {i \in InReach(self) : ~self.ghosts[i].frightened}

\* the player and every ghost are on their spawn cells
AllAtSpawn(self) ==
  /\ self.pacman.pos = grid_to_pixel(PACMAN_CELL)
  /\ \A i \in Ghosts : self.ghosts[i].pos = grid_to_pixel(GHOST_CELLS[i])

\* power mode is active: the expiry is set and has not lapsed
PowerActive == game.power_expires_at # 0 /\ now <= game.power_expires_at

\* C1: in every reachable state the grid cell of the player's position and of
\* every adversary's position is inside the maze and is not a wall.
C1_NoActorInWall ==
  \A i \in Ghosts \cup {0} :
    LET a == IF i = 0 THEN game.pacman ELSE game.ghosts[i]
    IN in_bounds(current_cell(a)) /\ ~is_wall(current_cell(a))

\* a ghost pressed against a wall it ran into off centre
C1_Witness_GhostAtWall ==
  \E i \in Ghosts :
    /\ ~is_centered(game.ghosts[i].pos)
    /\ ~can_move_dir(game.ghosts[i], game.ghosts[i].dir)
    /\ is_wall(add_tuple(current_cell(game.ghosts[i]), game.ghosts[i].dir))

\* C2: in every frame, if no alive non-frightened adversary is within the
\* collision distance when collisions are resolved (whatever frightened
\* adversaries are), lives are unchanged; if one or more are, lives go down by
\* exactly 1 and the player and all adversaries are back on their spawn cells.
C2_CollisionLives ==
  [][Updated =>
       /\ at_collision'.lives = game.lives
       /\ Threats(at_collision') = {} => game'.lives = game.lives
       /\ Threats(at_collision') # {} =>
            /\ game'.lives = game.lives - 1
            /\ AllAtSpawn(game')]_vars

\* both adversaries were threats within the collision distance in the same
\* frame, and it cost one life
C2_Witness_BothInReach ==
  /\ Cardinality(Threats(at_collision)) = 2
  /\ game.lives = at_collision.lives - 1
  /\ AllAtSpawn(game)

\* C3: a collision with an alive non-frightened adversary at lives = 1 leaves
\* lives = 0 and game over, and the player, the adversaries and the power
\* expiry as they were at the moment of the collision.
C3_FatalCollisionFreezes ==
  [][(Updated /\ at_collision'.lives = 1 /\ Threats(at_collision') # {}) =>
       /\ game'.lives = 0
       /\ game'.game_over
       /\ game'.pacman = at_collision'.pacman
       /\ game'.ghosts = at_collision'.ghosts
       /\ game'.power_expires_at = at_collision'.power_expires_at]_vars

\* C4 as stated: an adversary that is frightened stays frightened through every
\* frame at a time up to the expiry.
C4_FrightenedForWholeWindow ==
  [][Updated =>
       \A i \in Ghosts :
         (game.ghosts[i].frightened /\ now <= game.power_expires_at) =>
           game'.ghosts[i].frightened]_vars

\* C4 amended: a power pellet eaten in the frame at time T sets the expiry to
\* T + POWER_DURATION_MS and frightens every alive adversary; in a frame at a
\* time up to the expiry a frightened adversary stays frightened unless it is
\* eaten or a life is lost in that frame; the first frame at a time past the
\* expiry clears the expiry and every adversary's frightened flag together.
C4_PowerWindow ==
  [][Updated =>
       /\ at_collision'.maze.power_pellets # at_eat'.maze.power_pellets =>
            /\ at_collision'.power_expires_at = now + POWER_DURATION_MS
            /\ \A i \in Ghosts : at_collision'.ghosts[i].alive =>
                                   at_collision'.ghosts[i].frightened
       /\ \A i \in Ghosts :
            (game.ghosts[i].frightened /\ now <= game.power_expires_at) =>
              /\ at_collision'.ghosts[i].frightened
              /\ \/ game'.ghosts[i].frightened
                 \/ ~game'.ghosts[i].alive
                 \/ game'.lives < game.lives
       /\ (game.power_expires_at # 0 /\ now > game.power_expires_at) =>
            /\ at_eat'.power_expires_at = 0
            /\ \A i \in Ghosts : ~at_eat'.ghosts[i].frightened]_vars

\* the window has run its whole duration with an adversary frightened
\* throughout: the clock is past the expiry and the next update will clear it
C4_Witness_WindowRanOut ==
  /\ game.power_expires_at # 0
  /\ now > game.power_expires_at
  /\ \E i \in Ghosts : game.ghosts[i].alive /\ game.ghosts[i].frightened

\* C5: a frame leaves the position and the direction of an adversary that is
\* dead before and after it unchanged.
C5_DeadGhostStays ==
  [][Updated =>
       \A i \in Ghosts :
         (~game.ghosts[i].alive /\ ~game'.ghosts[i].alive) =>
           /\ game'.ghosts[i].pos = game.ghosts[i].pos
           /\ game'.ghosts[i].dir = game.ghosts[i].dir]_vars

\* C6: an adversary eaten in the frame at time T has its respawn due at
\* T + RESPAWN_MS; while it stays dead no step moves that moment; and the
\* timer's event puts every dead adversary back on its respawn cell, alive and
\* not frightened.
C6_RespawnOnTime ==
  [][\A i \in Ghosts :
       /\ (Updated /\ game.ghosts[i].alive /\ ~game'.ghosts[i].alive) =>
            timer' = now + RESPAWN_MS
       /\ (~game.ghosts[i].alive /\ ~game'.ghosts[i].alive) => timer' = timer
       /\ (~game.ghosts[i].alive /\ timer # 0 /\ timer' = 0) =>
            /\ game'.ghosts[i].alive
            /\ ~game'.ghosts[i].frightened
            /\ game'.ghosts[i].pos = grid_to_pixel(GHOST_CELLS[i])]_vars

\* m lies strictly between a and b
Between(a, m, b) == (a < m /\ m < b) \/ (b < m /\ m < a)

\* moving from p to q the actor went over the centre of cell c without being on
\* it at the start or at the end of the move
PassedCentre(p, q, c) ==
  LET ctr == grid_to_pixel(c)
  IN \/ p[2] = ctr[2] /\ q[2] = ctr[2] /\ Between(p[1][1], ctr[1][1], q[1][1])
     \/ p[1] = ctr[1] /\ q[1] = ctr[1] /\ Between(p[2][1], ctr[2][1], q[2][1])

\* C7: the player never goes over the centre of a cell whose neighbour in the
\* buffered direction is open while it keeps another direction: the buffered
\* direction is committed at that centre.
C7_TurnAtCentre ==
  [][Updated =>
       \A c \in (0 .. MAZE_COLS - 1) \X (0 .. MAZE_ROWS - 1) :
         ~ /\ game.pacman.pending_dir # STOP
           /\ game.pacman.pending_dir # at_eat'.pacman.dir
           /\ ~is_wall(c)
           /\ ~is_wall(add_tuple(c, game.pacman.pending_dir))
           /\ PassedCentre(game.pacman.pos, at_eat'.pacman.pos, c)]_vars

\* C8 as stated: while power mode is active every alive adversary is
\* frightened.
C8_AliveMeansFrightened ==
  PowerActive => \A i \in Ghosts : game.ghosts[i].alive => game.ghosts[i].frightened

\* C8 amended: while power mode is active an alive adversary is frightened
\* unless the respawn timer brought it back during the window: a step ends with
\* power mode active and an adversary alive and not frightened only if the step
\* is the timer's event respawning it, or if it began that way.
C8_FrightenedUnlessRespawned ==
  [][\A i \in Ghosts :
       (PowerActive' /\ game'.ghosts[i].alive /\ ~game'.ghosts[i].frightened) =>
         \/ ~game.ghosts[i].alive /\ TimerDue /\ timer' = 0
         \/ PowerActive /\ game.ghosts[i].alive /\ ~game.ghosts[i].frightened]_vars

\* an adversary respawned while the window is open: alive on its respawn cell
\* and not frightened, the other one still frightened
C8_Witness_RespawnedInWindow ==
  /\ PowerActive
  /\ \E i, j \in Ghosts :
       /\ game.ghosts[i].alive /\ ~game.ghosts[i].frightened
       /\ game.ghosts[i].pos = grid_to_pixel(GHOST_CELLS[i])
       /\ game.ghosts[j].alive /\ game.ghosts[j].frightened

\* C9: whenever the maze holds no pellet and no power pellet the win flag and
\* the game-over flag are set; the frame that eats the last one sets them.
C9_NoDotsMeansWon ==
  remaining_dots(game.maze) = 0 => game.win /\ game.game_over

\* the last consumable has been eaten and the game is won
C9_Witness_Won ==
  /\ remaining_dots(game.maze) = 0
  /\ remaining_dots(at_eat.maze) = 1
  /\ game.win

\* C10: in every frame, a consumable on the cell the player moves onto is off
\* the maze and its value is in the score when collisions are resolved, no
\* life yet lost and the player not yet reset; it stays so whatever the
\* collisions do, and with a power pellet the adversaries within reach are
\* eaten instead of costing a life.
C10_EatBeforeCollide ==
  [][Updated =>
       LET cell == current_cell(PacmanUpdate(game.pacman))
           gain == IF cell \in game.maze.pellets THEN PELLET_SCORE
                   ELSE IF cell \in game.maze.power_pellets THEN POWER_PELLET_SCORE
                   ELSE 0
       IN gain # 0 =>
            /\ at_collision'.score = game.score + gain
            /\ at_collision'.lives = game.lives
            /\ at_collision'.pacman = PacmanUpdate(game.pacman)
            /\ cell \notin game'.maze.pellets \cup game'.maze.power_pellets
            /\ game'.score >= game.score + gain
            /\ gain = POWER_PELLET_SCORE =>
                 /\ game'.lives = game.lives
                 /\ \A i \in InReach(at_collision') : ~game'.ghosts[i].alive]_vars

\* a pellet was eaten in the very frame in which an adversary took a life
C10_Witness_EatAndHit ==
  /\ at_collision.score = at_eat.score + PELLET_SCORE
  /\ Threats(at_collision) # {}
  /\ game.lives = at_collision.lives - 1
  /\ game.score = at_collision.score

\* the first ghost of the loop of collision_logic that is a threat in state self
FirstThreat(self) == CHOOSE i \in Threats(self) : \A j \in Threats(self) : i <= j

\* the frightened ghosts in reach the loop of collision_logic comes to: all of
\* them, or those before the first threat
EatenIn(self) ==
  {i \in InReach(self) \ Threats(self) :
     Threats(self) = {} \/ i < FirstThreat(self)}

\* C11: a frame in which a life is lost leaves the pellets and the power
\* pellets as collision resolution found them and the score too (plus the
\* bonus of adversaries eaten in that frame); the player is rebuilt on its
\* spawn cell, every adversary is alive, not frightened, on its spawn cell, and
\* the power expiry is 0.
C11_ResetKeepsScoreAndDots ==
  [][(Updated /\ Threats(at_collision') # {}) =>
       /\ game'.maze = at_collision'.maze
       /\ game'.score = at_collision'.score
                          + GHOST_EAT_SCORE * Cardinality(EatenIn(at_collision'))
       /\ game'.score >= game.score
       /\ game'.pacman = NewPacman
       /\ \A i \in Ghosts :
            /\ game'.ghosts[i].alive
            /\ ~game'.ghosts[i].frightened
            /\ game'.ghosts[i].pos = grid_to_pixel(GHOST_CELLS[i])
       /\ game'.power_expires_at = 0]_vars

\* a life was lost with consumables eaten and points scored: the round is
\* reset, the eaten consumables are still gone and the score is kept
C11_Witness_ResetAfterEating ==
  /\ Threats(at_collision) # {}
  /\ game.lives = at_collision.lives - 1
  /\ AllAtSpawn(game)
  /\ game.maze = at_collision.maze
  /\ game.maze.power_pellets # NewMaze.power_pellets
  /\ game.maze.pellets # NewMaze.pellets
  /\ game.score = at_collision.score
  /\ game.score > POWER_PELLET_SCORE

\* C12: a step that takes the game out of game over leaves score 0,
\* START_LIVES lives, every pellet and power pellet of the layout, the player
\* stopped on its spawn cell, every adversary alive and not frightened on its
\* spawn cell, the power expiry 0 and the win flag down.
C12_RestartRestoresAll ==
  [][(game.game_over /\ ~game'.game_over) =>
       /\ game'.score = 0
       /\ game'.lives = START_LIVES
       /\ game'.maze.pellets = ScanPellets(2)
       /\ game'.maze.power_pellets = ScanPellets(3)
       /\ game'.pacman.pos = grid_to_pixel(PACMAN_CELL)
       /\ game'.pacman.dir = STOP
       /\ game'.pacman.pending_dir = STOP
       /\ \A i \in Ghosts :
            /\ game'.ghosts[i].alive
            /\ ~game'.ghosts[i].frightened
            /\ game'.ghosts[i].pos = grid_to_pixel(GHOST_CELLS[i])
       /\ game'.power_expires_at = 0
       /\ ~game'.win]_vars

\* a game restarted after the fatal collision of a game in which consumables
\* were eaten: the latest update was that collision, and the game is new
C12_Witness_RestartedAfterLoss ==
  /\ at_collision.lives = 1
  /\ Threats(at_collision) # {}
  /\ at_collision.score > 0
  /\ at_collision.maze.pellets # ScanPellets(2)
  /\ ~game.game_over
  /\ game.score = 0
  /\ game.lives = START_LIVES
  /\ game.maze.pellets = ScanPellets(2)
  /\ game.maze.power_pellets = ScanPellets(3)

\* C13: the respawn timer's event leaves every adversary that is alive when it
\* is handled exactly as it was: position, direction, alive and frightened.
C13_TimerSparesTheLiving ==
  [][(TimerDue /\ timer' = 0) =>
       \A i \in Ghosts : game.ghosts[i].alive => game'.ghosts[i] = game.ghosts[i]]_vars

\* the timer's event has been handled with one adversary dead and the other
\* alive: since the collisions of the latest update, without a life lost, the
\* dead one has come back alive and the other one is as that update left it
C13_Witness_OneRespawned ==
  /\ timer = 0
  /\ ~game.game_over
  /\ game.lives = at_collision.lives
  /\ game.score = at_collision.score
  /\ \E i, j \in Ghosts :
       /\ ~at_collision.ghosts[i].alive
       /\ game.ghosts[i].alive
       /\ at_collision.ghosts[j].alive
       /\ game.ghosts[j] = at_collision.ghosts[j]
       /\ game.ghosts[j].pos # grid_to_pixel(GHOST_CELLS[j])

\* the ghosts that are dead and within the collision distance of the player
DeadInReach(self) ==
  {i \in Ghosts : /\ ~self.ghosts[i].alive
                  /\ within_reach(self.pacman.pos, self.ghosts[i].pos)}

\* C14: a dead adversary triggers no collision. In an update where a dead
\* adversary is within the collision distance, the score grows only by the
\* frightened ghosts that are alive and eaten, and when no alive ghost that is
\* not frightened is within the distance the lives and the dead adversary are
\* left as they are.
C14_DeadGhostTriggersNothing ==
  [][Updated =>
       \A i \in DeadInReach(at_collision') :
         /\ game'.score = at_collision'.score
                            + GHOST_EAT_SCORE * Cardinality(EatenIn(at_collision'))
         /\ Threats(at_collision') = {} =>
              /\ game'.lives = at_collision'.lives
              /\ game'.ghosts[i] = at_collision'.ghosts[i]
              /\ game'.pacman = at_collision'.pacman]_vars

\* the collision resolution has run with a dead adversary in the player's own
\* cell and has left the lives, the score and that adversary as they were
C14_Witness_DeadGhostOnPlayer ==
  /\ ~game.game_over
  /\ game.lives = at_collision.lives
  /\ game.score = at_collision.score
  /\ \E i \in DeadInReach(at_collision) :
       /\ game.ghosts[i] = at_collision.ghosts[i]
       /\ current_cell(game.ghosts[i]) = current_cell(game.pacman)

\* the state a step's resets (reset_round, restart, respawn) start from: the
\* one collision_logic found in an update, the state before the step otherwise
BeforeResets == IF Updated THEN at_collision' ELSE game

\* C15: the direction of the player and of every adversary changes only at a
\* centered position.  In an update, an actor whose direction after the moves
\* is not the one it began the frame with began the frame centered; and any
\* other change of direction (life lost, restart, respawn) puts the actor on
\* the centre of its spawn cell.
C15_DirChangesAtCentre ==
  [][/\ Updated =>
          /\ at_collision'.pacman.dir # game.pacman.dir => is_centered(game.pacman.pos)
          /\ \A i \in Ghosts :
               at_collision'.ghosts[i].dir # game.ghosts[i].dir
                 => is_centered(game.ghosts[i].pos)
     /\ game'.pacman.dir # BeforeResets.pacman.dir =>
          /\ game'.pacman.pos = grid_to_pixel(PACMAN_CELL)
          /\ is_centered(game'.pacman.pos)
     /\ \A i \in Ghosts :
          game'.ghosts[i].dir # BeforeResets.ghosts[i].dir =>
            /\ game'.ghosts[i].pos = grid_to_pixel(GHOST_CELLS[i])
            /\ is_centered(game'.ghosts[i].pos)]_vars

\* the player, which left its spawn cell's centre going right, is between two
\* cell centres with the reverse buffered and has not taken it, and an
\* adversary is between two centres on the way it chose on its spawn cell
C15_Witness_ReverseBufferedMidCell ==
  /\ ~game.game_over
  /\ game.pacman.dir = RIGHT
  /\ game.pacman.pending_dir = LEFT
  /\ ~is_centered(game.pacman.pos)
  /\ current_cell(game.pacman) # PACMAN_CELL
  /\ \E i \in Ghosts :
       /\ game.ghosts[i].dir \in {LEFT, RIGHT}
       /\ current_cell(game.ghosts[i]) # GHOST_CELLS[i]
       /\ ~is_centered(game.ghosts[i].pos)

\* nothing can change any more unless a key is pressed: no respawn is pending,
\* power mode is off, and the update of a frame leaves the game as it is
Standstill ==
  /\ ~game.game_over
  /\ timer = 0
  /\ game.power_expires_at = 0
  /\ \A u \in Update(game, timer, now) : u.game = game /\ u.timer = timer

\* C16: an alive adversary blocked by a wall in its direction does not stay
\* blocked for all future ticks.  In its finite form: the game of a player who
\* has no key left to press never comes to a standstill in which an alive
\* adversary stands off-centre against a wall, where every later update leaves
\* it stationary with its direction unchanged.
C16_BlockedGhostGoesOn ==
  \A i \in Ghosts :
    ~ /\ Standstill
      /\ script = <<>>
      /\ game.ghosts[i].alive
      /\ ~can_move_dir(game.ghosts[i], game.ghosts[i].dir)
      /\ ~is_centered(game.ghosts[i].pos)
      /\ GhostUpdate(game.ghosts[i]) = {game.ghosts[i]}

\* C17: an adversary that begins an update centered commits a direction whose
\* neighbour cell is not a wall, and commits the reverse of the direction it
\* held only if every other neighbour of its cell is a wall.
C17_CommitsOpenNotReverse ==
  [][Updated =>
       \A i \in Ghosts :
         is_centered(game.ghosts[i].pos) =>
           LET cell == current_cell(game.ghosts[i])
               d    == at_collision'.ghosts[i].dir
           IN /\ d \in DirSet
              /\ ~is_wall(add_tuple(cell, d))
              /\ d = opposite(game.ghosts[i].dir) =>
                   \A e \in DirSet \ {d} : is_wall(add_tuple(cell, e))]_vars

\* an adversary that went right along its spawn row was centered on the corner
\* of column 5, where the reverse (LEFT) was open, and committed the one other
\* open direction: it is now between two cells of column 5, going up or down
C17_Witness_TurnedAtCorner ==
  \E i \in Ghosts :
    /\ game.ghosts[i].alive
    /\ current_cell(game.ghosts[i])[1] = MAZE_COLS - 2
    /\ game.ghosts[i].dir \in {UP, DOWN}
    /\ game.ghosts[i].pos[2] # grid_to_pixel(GHOST_CELLS[i])[2]
    /\ ~is_wall(add_tuple(<<MAZE_COLS - 2, GHOST_CELLS[i][2]>>, LEFT))

\* C18: in every reachable state an adversary that is frightened is alive, and
\* the power-mode expiry time is then not zero.
C18_FrightenedAliveInPowerMode ==
  \A i \in Ghosts :
    game.ghosts[i].frightened =>
      game.ghosts[i].alive /\ game.power_expires_at # 0

\* power mode is on with one adversary eaten, dead and no longer frightened,
\* and the other one alive and frightened
C18_Witness_OneEatenOneFrightened ==
  /\ game.power_expires_at # 0
  /\ \E i, j \in Ghosts :
       /\ ~game.ghosts[i].alive
       /\ ~game.ghosts[i].frightened
       /\ game.ghosts[j].alive
       /\ game.ghosts[j].frightened

\* C19: once the game is over, no tick, key or timer event changes the score,
\* the lives, the pellets, the power pellets or the player's position,
\* direction and buffered direction; the game stops being over only by a
\* restart, which builds a new game, and a game that is not over is never
\* restarted (its score and lives are not put back, no pellet returns); the
\* lives are never negative.
C19_GameOverIsFinal ==
  [][/\ (game.game_over /\ game'.game_over) =>
          /\ game'.score = game.score
          /\ game'.lives = game.lives
          /\ game'.maze = game.maze
          /\ game'.pacman = game.pacman
          /\ game'.win = game.win
     /\ (game.game_over /\ ~game'.game_over) => game' \in NewGames
     /\ ~game.game_over =>
          /\ game'.score >= game.score
          /\ game'.lives <= game.lives
          /\ game'.maze.pellets \subseteq game.maze.pellets
          /\ game'.maze.power_pellets \subseteq game.maze.power_pellets
     /\ game.lives >= 0
     /\ game'.lives >= 0]_vars

\* the last life was lost with pellets eaten, the last key of the script has
\* been pressed since without being buffered, and the game has stayed over
\* until the last frame followed
C19_Witness_OverToTheEnd ==
  /\ game.game_over
  /\ script = <<>>
  /\ ~game.win
  /\ game.lives = 0
  /\ game.score > 0
  /\ game.pacman = NewPacman
  /\ timer = 0
  /\ now = MaxTicks * frame_ms

\* cell c holds neither a pellet nor a power pellet in maze m
Eaten(m, c) == c \notin m.pellets /\ c \notin m.power_pellets

\* C20: the player passes over no cell without consuming what it holds.  An
\* update moves the player within its cell or into a neighbour of it; at its
\* end the cell the player began in, the cell it moved into and the cell it is
\* left in hold no pellet and no power pellet; and nothing but a restart ever
\* puts a pellet or a power pellet back, so that every cell the player has
\* occupied since the last restart is empty.
C20_NoCellPassedUneaten ==
  [][/\ Updated =>
          /\ \/ current_cell(at_eat'.pacman) = current_cell(game.pacman)
             \/ \E d \in DirSet :
                  current_cell(at_eat'.pacman) = add_tuple(current_cell(game.pacman), d)
          /\ Eaten(game'.maze, current_cell(game.pacman))
          /\ Eaten(game'.maze, current_cell(at_eat'.pacman))
          /\ Eaten(game'.maze, current_cell(game'.pacman))
     /\ ~(game.game_over /\ ~game'.game_over) =>
          /\ game'.maze.pellets \subseteq game.maze.pellets
          /\ game'.maze.power_pellets \subseteq game.maze.power_pellets]_vars

\* the player, away from its spawn cell and between two cell centres, is in a
\* cell that held a power pellet and holds nothing now, with pellets eaten on
\* the way there
C20_Witness_AtePowerPelletOnTheWay ==
  /\ ~game.game_over
  /\ current_cell(game.pacman) # PACMAN_CELL
  /\ ~is_centered(game.pacman.pos)
  /\ current_cell(game.pacman) \in NewMaze.power_pellets
  /\ Eaten(game.maze, current_cell(game.pacman))
  /\ Cardinality(NewMaze.pellets \ game.maze.pellets) >= 3

====
